---------------------------- MODULE Spec2Model ----------------------------
(***************************************************************************)
(* Model of the two scripts of the repository:                             *)
(*   level1.py  fetch -> parse -> text table (MFDDataFetcher,              *)
(*              MFDCurrencyParser, TableFormatter, CurrencyService, main)  *)
(*   level2.py  fetch -> find table -> row loop -> chart (module level)    *)
(*                                                                         *)
(* A text is a sequence of one-character strings.  Cyrillic literals of    *)
(* the source are transliterated (TLA+ strings are ASCII); the header      *)
(* words keep the lengths they have in the source.                         *)
(* An HTML document is abstracted to what BeautifulSoup's queries return:  *)
(*   cls   "none" (no table element), "mfd-table" (a table of that         *)
(*         class exists) or "other" (tables, none of that class)           *)
(*   rows  table.find_all('tr'), each row being the get_text() of          *)
(*         row.find_all('td')                                              *)
(***************************************************************************)
EXTENDS Integers, Sequences, FiniteSets, TLC

VARIABLES
    program,   \* which script this run executes: "level1" or "level2"
    pc,        \* position in the script
    html,      \* the fetched document (NoDoc before the fetch)
    rates,     \* level1: List[CurrencyRate]; level2: the list rates
    origin,    \* history: for each element of rates, the index of its row
    dates,     \* level2: the list dates
    idx,       \* level2: index of the row the for loop takes next
    exc,       \* the exception raised, and the step that raised it
    stdout,    \* what print() has written, in order
    calls,     \* history: the steps invoked so far, in order
    plotted    \* level2: the data handed to plt.plot (<<>> before)

vars ==
    <<program, pc, html, rates, origin, dates, idx, exc, stdout, calls,
      plotted>>

---------------------------------------------------------------------------
(* Bounds of the model *)

MaxRows == 3
MaxCells == 4

---------------------------------------------------------------------------
(* Texts *)

NL == "\n"

\* str.strip() with no argument removes leading and trailing whitespace.
Whitespace == {" ", "\t", NL, "\r", "\f"}

RECURSIVE lstrip(_)
lstrip(s) ==
    IF s /= <<>> /\ Head(s) \in Whitespace THEN lstrip(Tail(s)) ELSE s

RECURSIVE rstrip(_)
rstrip(s) ==
    IF s /= <<>> /\ s[Len(s)] \in Whitespace
    THEN rstrip(SubSeq(s, 1, Len(s) - 1))
    ELSE s

strip(s) == rstrip(lstrip(s))

RECURSIVE spaces(_)
spaces(n) == IF n <= 0 THEN <<>> ELSE <<" ">> \o spaces(n - 1)

RECURSIVE dashes(_)
dashes(n) == IF n <= 0 THEN <<>> ELSE <<"-">> \o dashes(n - 1)

\* str.ljust(w) / str.rjust(w): pad with spaces up to w, never truncate.
ljust(s, w) == s \o spaces(w - Len(s))
rjust(s, w) == spaces(w - Len(s)) \o s

---------------------------------------------------------------------------
(* level1.py: MFDCurrencyParser.parse *)

CurrencyRate(d, r, c) == [date |-> d, rate |-> r, change |-> c]

\* soup.find('table', class_='mfd-table')
findTableByClass(doc) == doc.cls = "mfd-table"

\* table.find_all('tr')[1:], as the indices of the rows kept
dataRowIndicesAll(rows) == 1..Len(rows)
dataRowIndices(rows) == 2..Len(rows)

\* if len(columns) == 3
rowAcceptedAtLeast(columns) == Len(columns) >= 3
rowAccepted(columns) == Len(columns) = 3

\* CurrencyRate(date=columns[0]..., rate=columns[1]..., change=columns[2]...)
mkRateSwapped(columns) ==
    CurrencyRate(strip(columns[1]), strip(columns[3]), strip(columns[2]))
mkRate(columns) ==
    CurrencyRate(strip(columns[1]), strip(columns[2]), strip(columns[3]))

\* the for loop over rows; acc collects [row, rec] in append order
RECURSIVE parseLoop(_, _, _)
parseLoop(rows, i, acc) ==
    IF i > Len(rows) THEN acc
    ELSE IF i \in dataRowIndices(rows) /\ rowAccepted(rows[i])
         THEN parseLoop(rows, i + 1,
                        Append(acc, [row |-> i, rec |-> mkRate(rows[i])]))
         ELSE parseLoop(rows, i + 1, acc)

\* parse(html): raised is "ValueError" when the table is not found
parseSwallow(doc) ==
    IF ~findTableByClass(doc)
    THEN [raised |-> "", out |-> <<>>]
    ELSE [raised |-> "", out |-> parseLoop(doc.rows, 1, <<>>)]
parse(doc) ==
    IF ~findTableByClass(doc)
    THEN [raised |-> "ValueError", out |-> <<>>]
    ELSE [raised |-> "", out |-> parseLoop(doc.rows, 1, <<>>)]

---------------------------------------------------------------------------
(* level1.py: TableFormatter.format *)

DateWidth == 15
ValueWidth == 10
SeparatorWidth == 40

\* "Нет данных для отображения"
NoDataMessage ==
    <<"N","e","t"," ","d","a","n","n","y","h"," ","d","l","y","a"," ",
      "o","t","o","b","r","a","z","h","e","n","i","y","a">>

\* "Дата", "Курс", "Изменение"
HeaderDate == <<"D","a","t","a">>
HeaderRate == <<"K","u","r","s">>
HeaderChange == <<"I","z","m","e","n","e","n","i","e">>

header ==
    ljust(HeaderDate, DateWidth) \o <<" ", "|">>
        \o rjust(HeaderRate, ValueWidth) \o <<" ", " ", "|">>
        \o rjust(HeaderChange, ValueWidth)

separator == dashes(SeparatorWidth)

formatLineNarrow(rate) ==
    ljust(rate.date, DateWidth) \o <<"|", " ">>
        \o rjust(rate.rate, ValueWidth) \o <<" ", "|", " ">>
        \o rjust(rate.change, ValueWidth)
formatLine(rate) ==
    ljust(rate.date, DateWidth) \o <<" ", "|", " ">>
        \o rjust(rate.rate, ValueWidth) \o <<" ", "|", " ">>
        \o rjust(rate.change, ValueWidth)

\* "\n".join(lines)
RECURSIVE join(_)
join(lines) ==
    IF lines = <<>> THEN <<>>
    ELSE IF Len(lines) = 1 THEN lines[1]
    ELSE lines[1] \o <<NL>> \o join(Tail(lines))

formatTable(rs) ==
    join(<<header, separator>> \o [k \in 1..Len(rs) |-> formatLine(rs[k])])

formatNoEmptyCheck(rs) == formatTable(rs)
format(rs) == IF rs = <<>> THEN NoDataMessage ELSE formatTable(rs)

---------------------------------------------------------------------------
(* level2.py: the conversions of the row loop *)

Digits == {"0", "1", "2", "3", "4", "5", "6", "7", "8", "9"}

digitValue(c) ==
    CASE c = "0" -> 0 [] c = "1" -> 1 [] c = "2" -> 2 [] c = "3" -> 3
      [] c = "4" -> 4 [] c = "5" -> 5 [] c = "6" -> 6 [] c = "7" -> 7
      [] c = "8" -> 8 [] c = "9" -> 9

allDigits(s) == \A k \in 1..Len(s) : s[k] \in Digits

RECURSIVE natValue(_)
natValue(s) ==
    IF s = <<>> THEN 0
    ELSE 10 * natValue(SubSeq(s, 1, Len(s) - 1)) + digitValue(s[Len(s)])

RECURSIVE pow10(_)
pow10(n) == IF n = 0 THEN 1 ELSE 10 * pow10(n - 1)

\* value.replace('*', '')
RECURSIVE removeStars(_)
removeStars(s) ==
    IF s = <<>> THEN <<>>
    ELSE IF Head(s) = "*" THEN removeStars(Tail(s))
    ELSE <<Head(s)>> \o removeStars(Tail(s))

\* the position of the first c in s, 0 when there is none
RECURSIVE indexOf(_, _, _)
indexOf(s, c, k) ==
    IF k > Len(s) THEN 0 ELSE IF s[k] = c THEN k ELSE indexOf(s, c, k + 1)

\* a decimal value num / 10^scale, with no trailing zero in the fraction
RECURSIVE normalize(_)
normalize(v) ==
    IF v.scale > 0 /\ v.num % 10 = 0
    THEN normalize([num |-> v.num \div 10, scale |-> v.scale - 1])
    ELSE v

\* float(text) on texts over digits, sign, point, space and other letters
\* that are no part of a float literal: surrounding whitespace is ignored,
\* then [sign] digits [. [digits]] or [sign] . digits; otherwise ValueError.
float(text) ==
    LET t == strip(text)
        signed == t /= <<>> /\ Head(t) \in {"+", "-"}
        body == IF signed THEN Tail(t) ELSE t
        dot == indexOf(body, ".", 1)
        ip == IF dot = 0 THEN body ELSE SubSeq(body, 1, dot - 1)
        fp == IF dot = 0 THEN <<>> ELSE SubSeq(body, dot + 1, Len(body))
        ok == allDigits(ip) /\ allDigits(fp) /\ Len(ip) + Len(fp) > 0
        mag == natValue(ip) * pow10(Len(fp)) + natValue(fp)
    IN  IF ~ok THEN [raised |-> "ValueError", val |-> [num |-> 0, scale |-> 0]]
        ELSE [raised |-> "",
              val |-> normalize([num |-> IF signed /\ Head(t) = "-"
                                         THEN 0 - mag ELSE mag,
                                 scale |-> Len(fp)])]

\* the %d and %m directives of _strptime: 3[0-1]|[1-2]\d|0[1-9]|[1-9]| [1-9]
\* and 1[0-2]|0[1-9]|[1-9]
NonZeroDigits == Digits \ {"0"}

matchesDay(p) ==
    \/ Len(p) = 1 /\ p[1] \in NonZeroDigits
    \/ Len(p) = 2 /\ \/ p[1] = "3" /\ p[2] \in {"0", "1"}
                     \/ p[1] \in {"1", "2"} /\ p[2] \in Digits
                     \/ p[1] \in {"0", " "} /\ p[2] \in NonZeroDigits

matchesMonth(p) ==
    \/ Len(p) = 1 /\ p[1] \in NonZeroDigits
    \/ Len(p) = 2 /\ \/ p[1] = "1" /\ p[2] \in {"0", "1", "2"}
                     \/ p[1] = "0" /\ p[2] \in NonZeroDigits

isLeap(y) == y % 4 = 0 /\ (y % 100 /= 0 \/ y % 400 = 0)

daysInMonth(y, m) ==
    IF m = 2 THEN (IF isLeap(y) THEN 29 ELSE 28)
    ELSE IF m \in {4, 6, 9, 11} THEN 30 ELSE 31

\* datetime.strptime(text, '%d.%m.%Y'): the whole text must match
\* <day>.<month>.<4 digits> and name a date of the calendar.
strptime(text) ==
    LET d1 == indexOf(text, ".", 1)
        rest == IF d1 = 0 THEN <<>> ELSE SubSeq(text, d1 + 1, Len(text))
        d2 == indexOf(rest, ".", 1)
        dp == IF d1 = 0 THEN <<>> ELSE SubSeq(text, 1, d1 - 1)
        mp == IF d2 = 0 THEN <<>> ELSE SubSeq(rest, 1, d2 - 1)
        yp == IF d2 = 0 THEN <<>> ELSE SubSeq(rest, d2 + 1, Len(rest))
        shape == /\ d1 > 0 /\ d2 > 0
                 /\ matchesDay(dp) /\ matchesMonth(mp)
                 /\ Len(yp) = 4 /\ allDigits(yp)
        day == natValue(strip(dp))
        month == natValue(mp)
        year == natValue(yp)
        bad == [raised |-> "ValueError",
                val |-> [year |-> 0, month |-> 0, day |-> 0]]
    IN  IF ~shape THEN bad
        ELSE IF year < 1 \/ day > daysInMonth(year, month) THEN bad
        ELSE [raised |-> "",
              val |-> [year |-> year, month |-> month, day |-> day]]

\* columns[0].get_text().strip()[2:]
dateText(columns) ==
    LET s == strip(columns[1]) IN SubSeq(s, 3, Len(s))

\* columns[1].get_text().strip()
valueText(columns) == strip(columns[2])

\* if len(columns) >= 2
hasEnoughColumns(columns) == Len(columns) >= 2

\* the try block of one row: float, strptime, dates.append, rates.append;
\* the first ValueError leaves the block
tryBodyEager(ds, rs, date_str, value) ==
    LET f == float(removeStars(value))
        d == strptime(date_str)
    IN  IF f.raised /= "" THEN [dates |-> ds, rates |-> rs, raised |-> f.raised]
        ELSE IF d.raised /= ""
        THEN [dates |-> ds, rates |-> Append(rs, f.val), raised |-> d.raised]
        ELSE [dates |-> Append(ds, d.val), rates |-> Append(rs, f.val),
              raised |-> ""]
tryBody(ds, rs, date_str, value) ==
    LET f == float(removeStars(value))
        d == strptime(date_str)
    IN  IF f.raised /= "" THEN [dates |-> ds, rates |-> rs, raised |-> f.raised]
        ELSE IF d.raised /= ""
        THEN [dates |-> ds, rates |-> rs, raised |-> d.raised]
        ELSE [dates |-> Append(ds, d.val), rates |-> Append(rs, f.val),
              raised |-> ""]

---------------------------------------------------------------------------
(* The documents a fetch may return *)

NoDoc == [cls |-> "unfetched", rows |-> <<>>]
NoTableDoc == [cls |-> "none", rows |-> <<>>]

\* cell texts of level1 tables: padded, with an inner line break, blank
Texts ==
    << <<" ", "a", "\t">>, <<"b", NL, "c">>, <<NL, " ">> >>

\* a row of n cells; v rotates the texts so that neighbours differ
textRow(n, v) == [j \in 1..n |-> Texts[((v + j) % Len(Texts)) + 1]]

TextRows == {textRow(n, v) : n \in 0..MaxCells, v \in 1..Len(Texts)}

tablesOf(rowSet) == UNION {[1..m -> rowSet] : m \in 0..MaxRows}

\* the table of the end-to-end example
ExampleRows ==
    << << <<"D","a","t","e">>, <<"R","a","t","e">>,
          <<"C","h","a","n","g","e">> >>,
       << <<"0","1",".","0","1",".","2","0","2","4">>,
          <<"9","0",".","5","0">>,
          <<"+","0",".","2","0">> >> >>

ExampleDoc == [cls |-> "mfd-table", rows |-> ExampleRows]

Level1Docs ==
    {NoTableDoc, ExampleDoc, [cls |-> "other", rows |-> ExampleRows]}
        \cup {[cls |-> "mfd-table", rows |-> t] : t \in tablesOf(TextRows)}

\* cell texts of chart tables: "с 01.01.2024" (the label is one letter and
\* a space), a day the month does not have, and rates with and without
\* the asterisk
DateGood == <<"s"," ","0","1",".","0","1",".","2","0","2","4">>
DateBad == <<"s"," ","3","1",".","0","2",".","2","0","2","4">>
RateStar == <<"9","0",".","5","0","*">>
RateBad == <<"x">>
Filler == <<"x">>

ChartCells ==
    {<<DateGood, RateStar>>, <<DateGood, RateBad>>, <<DateBad, RateStar>>}

chartRow(n, c) == [j \in 1..n |-> IF j <= 2 THEN c[j] ELSE Filler]

ChartRows == {chartRow(n, c) : n \in 0..MaxCells, c \in ChartCells}

Level2Docs ==
    {NoTableDoc}
        \cup {[cls |-> "other", rows |-> t] : t \in tablesOf(ChartRows)}

---------------------------------------------------------------------------
(* Exceptions and what main() prints for them *)

NoExc == [type |-> "", at |-> ""]

raised(type, at) == [type |-> type, at |-> at]

\* requests.RequestException and its subclasses
RequestExceptions == {"RequestException", "ConnectionError", "HTTPError"}

\* what MFDDataFetcher.fetch_data may raise: requests.get (transport),
\* raise_for_status (HTTP status), anything else
FetchFailures == {"ConnectionError", "HTTPError", "RuntimeError"}

line(kind, text, n) == [kind |-> kind, text |-> text, n |-> n]

\* the except clauses of main(), tried in order
exceptClauses(e) ==
    IF e.type \in RequestExceptions
    THEN <<line("fetch_error", <<>>, 0), line("fetch_advice", <<>>, 0)>>
    ELSE IF e.type = "ValueError"
    THEN <<line("parse_error", <<>>, 0), line("parse_advice", <<>>, 0)>>
    ELSE <<line("unexpected_error", <<>>, 0),
           line("unexpected_advice", <<>>, 0)>>

---------------------------------------------------------------------------
(* The runs *)

Init ==
    /\ program \in {"level1", "level2"}
    /\ pc = "start"
    /\ html = NoDoc
    /\ rates = <<>>
    /\ origin = <<>>
    /\ dates = <<>>
    /\ idx = 0
    /\ exc = NoExc
    /\ stdout = <<>>
    /\ calls = <<>>
    /\ plotted = <<>>

\* level1.py main(): service.get_currency_rates() calls fetcher.fetch_data()
Fetch ==
    /\ program = "level1" /\ pc = "start"
    /\ calls' = Append(calls, "fetch")
    /\ \/ \E d \in Level1Docs :
             /\ html' = d /\ pc' = "fetched" /\ exc' = exc
       \/ \E t \in FetchFailures :
             /\ exc' = raised(t, "fetch") /\ pc' = "except" /\ html' = html
    /\ UNCHANGED <<program, rates, origin, dates, idx, stdout, plotted>>

\* ... then parser.parse(html)
ParseNoAbort ==
    /\ program = "level1" /\ pc = "fetched"
    /\ calls' = Append(calls, "parse")
    /\ LET r == parse(html) IN
         /\ exc' = IF r.raised /= "" THEN raised(r.raised, "parse") ELSE exc
         /\ pc' = "parsed"
         /\ rates' = [k \in 1..Len(r.out) |-> r.out[k].rec]
         /\ origin' = [k \in 1..Len(r.out) |-> r.out[k].row]
    /\ UNCHANGED <<program, html, dates, idx, stdout, plotted>>
Parse ==
    /\ program = "level1" /\ pc = "fetched"
    /\ calls' = Append(calls, "parse")
    /\ LET r == parse(html) IN
         IF r.raised /= ""
         THEN /\ exc' = raised(r.raised, "parse") /\ pc' = "except"
              /\ UNCHANGED <<rates, origin>>
         ELSE /\ rates' = [k \in 1..Len(r.out) |-> r.out[k].rec]
              /\ origin' = [k \in 1..Len(r.out) |-> r.out[k].row]
              /\ pc' = "parsed" /\ exc' = exc
    /\ UNCHANGED <<program, html, dates, idx, stdout, plotted>>

\* print(formatter.format(rates))
Format ==
    /\ program = "level1" /\ pc = "parsed"
    /\ calls' = Append(calls, "format")
    /\ stdout' = Append(stdout, line("table", format(rates), 0))
    /\ pc' = "formatted"
    /\ UNCHANGED <<program, html, rates, origin, dates, idx, exc, plotted>>

\* print(f"\nУспешно получено {len(rates)} записей")
PrintCount ==
    /\ program = "level1" /\ pc = "formatted"
    /\ stdout' = Append(stdout, line("count", <<>>, Len(rates)))
    /\ pc' = "done"
    /\ UNCHANGED
         <<program, html, rates, origin, dates, idx, exc, calls, plotted>>

\* the except clause that matches the exception prints its two lines
Except ==
    /\ program = "level1" /\ pc = "except"
    /\ stdout' = stdout \o exceptClauses(exc)
    /\ pc' = "done"
    /\ UNCHANGED
         <<program, html, rates, origin, dates, idx, exc, calls, plotted>>

\* level2.py: response = requests.get(url), outside any try
ChartFetch ==
    /\ program = "level2" /\ pc = "start"
    /\ calls' = Append(calls, "fetch")
    /\ \/ \E d \in Level2Docs :
             /\ html' = d /\ pc' = "fetched" /\ exc' = exc
       \/ /\ exc' = raised("ConnectionError", "fetch") /\ pc' = "crashed"
          /\ html' = html
    /\ UNCHANGED <<program, rates, origin, dates, idx, stdout, plotted>>

\* table = soup.find('table'); rows = table.find_all('tr')[1:]
ChartFindTable ==
    /\ program = "level2" /\ pc = "fetched"
    /\ calls' = Append(calls, "parse")
    /\ IF html.cls = "none"
       THEN /\ stdout' = Append(stdout, line("table_not_found", <<>>, 0))
            /\ pc' = "done"
            /\ UNCHANGED <<rates, dates, idx>>
       ELSE /\ rates' = <<>> /\ dates' = <<>> /\ idx' = 2
            /\ pc' = "loop"
            /\ stdout' = stdout
    /\ UNCHANGED <<program, html, origin, exc, plotted>>

\* one iteration of: for row in rows
ChartRow ==
    /\ program = "level2" /\ pc = "loop" /\ idx <= Len(html.rows)
    /\ LET columns == html.rows[idx] IN
         IF hasEnoughColumns(columns)
         THEN LET r == tryBody(dates, rates, dateText(columns),
                               valueText(columns))
              IN  /\ dates' = r.dates /\ rates' = r.rates
                  /\ origin' = IF r.raised = "" THEN Append(origin, idx)
                               ELSE origin
         ELSE UNCHANGED <<dates, rates, origin>>
    /\ idx' = idx + 1
    /\ UNCHANGED <<program, pc, html, exc, stdout, calls, plotted>>

\* plt.plot(dates, rates, ...); plt.show()
ChartPlot ==
    /\ program = "level2" /\ pc = "loop" /\ idx > Len(html.rows)
    /\ calls' = Append(calls, "render")
    /\ plotted' = <<[dates |-> dates, rates |-> rates]>>
    /\ pc' = "done"
    /\ UNCHANGED <<program, html, rates, origin, dates, idx, exc, stdout>>

Next ==
    \/ Fetch \/ Parse \/ Format \/ PrintCount \/ Except
    \/ ChartFetch \/ ChartFindTable \/ ChartRow \/ ChartPlot

Spec == Init /\ [][Next]_vars

---------------------------------------------------------------------------
(* Vocabulary of the properties *)

\* t is s without its leading and trailing whitespace
IsTrimOf(t, s) ==
    \E a, b \in 0..Len(s) :
        /\ a + b <= Len(s)
        /\ t = SubSeq(s, a + 1, Len(s) - b)
        /\ \A k \in 1..a : s[k] \in Whitespace
        /\ \A k \in (Len(s) - b + 1)..Len(s) : s[k] \in Whitespace
        /\ t /= <<>> => (t[1] \notin Whitespace /\ t[Len(t)] \notin Whitespace)

\* the lines of a text, as str.split("\n") gives them
RECURSIVE splitLines(_)
splitLines(s) ==
    LET k == indexOf(s, NL, 1) IN
        IF k = 0 THEN <<s>>
        ELSE <<SubSeq(s, 1, k - 1)>> \o splitLines(SubSeq(s, k + 1, Len(s)))

Range(f) == {f[k] : k \in DOMAIN f}

StrictlyIncreasing(f) == \A j, k \in DOMAIN f : j < k => f[j] < f[k]

\* level1: parse has returned its list
Parsed ==
    /\ program = "level1"
    /\ pc \in {"parsed", "formatted", "done"}
    /\ exc = NoExc

\* level1: the table has been printed
Printed == Parsed /\ pc \in {"formatted", "done"}

\* the rows after the first that have exactly three cells
ThreeCellRows == {i \in 2..Len(html.rows) : Len(html.rows[i]) = 3}

RecordOfRow(rec, row) ==
    /\ IsTrimOf(rec.date, row[1])
    /\ IsTrimOf(rec.rate, row[2])
    /\ IsTrimOf(rec.change, row[3])

\* level2: the row converts, i.e. the try block completes for it
Converts(row) ==
    /\ Len(row) >= 2
    /\ float(removeStars(strip(row[2]))).raised = ""
    /\ strptime(SubSeq(strip(row[1]), 3, Len(strip(row[1])))).raised = ""

---------------------------------------------------------------------------
(* Properties *)

\* C1: every row after the first with exactly 3 cells has a record whose
\* date, rate and change are the whitespace-trimmed texts of its cells 0, 1
\* and 2, in that order.
C1_TrimmedCellsInOrder ==
    Parsed =>
        \A i \in ThreeCellRows :
            \E k \in 1..Len(rates) :
                origin[k] = i /\ RecordOfRow(rates[k], html.rows[i])

\* a 3-cell data row whose cells all differ and whose first cell had
\* whitespace to trim has been parsed
C1_Witness ==
    /\ Parsed
    /\ \E k \in 1..Len(rates) :
          LET row == html.rows[origin[k]] IN
              /\ rates[k].date /= row[1]
              /\ Cardinality({row[1], row[2], row[3]}) = 3

\* C2: every record comes from a row with exactly 3 cells and has exactly
\* the three fields; rows of another cell count are skipped and raise no
\* error (parse raises only when the table is missing).
C2_OnlyThreeCellRows ==
    /\ Parsed =>
          /\ Len(origin) = Len(rates)
          /\ \A k \in 1..Len(rates) :
                /\ origin[k] \in 1..Len(html.rows)
                /\ Len(html.rows[origin[k]]) = 3
                /\ DOMAIN rates[k] = {"date", "rate", "change"}
    /\ (program = "level1" /\ exc.at = "parse") => ~findTableByClass(html)

\* a table with a 2-cell row, a 4-cell row and a 3-cell row has been
\* parsed into one record
C2_Witness ==
    /\ Parsed /\ pc = "parsed"
    /\ Len(rates) = 1
    /\ \E i, j \in 2..Len(html.rows) :
          Len(html.rows[i]) = 4 /\ Len(html.rows[j]) = 3
    /\ Len(html.rows[1]) = 2

\* C3: format of a non-empty list returns exactly 2 + len(records) lines,
\* whatever the fields hold.
C3_LineCount ==
    (Printed /\ rates /= <<>>) =>
        Len(splitLines(stdout[1].text)) = 2 + Len(rates)

\* C4 as the specification states it: the record line of the example is
\* 01.01.2024, 5 spaces, the pipe, 6 spaces, 90.50, a space, the pipe,
\* 6 spaces, +0.20.
SpecExampleLine ==
    <<"0","1",".","0","1",".","2","0","2","4"," "," "," "," "," ","|",
      " "," "," "," "," "," ","9","0",".","5","0"," ","|",
      " "," "," "," "," "," ","+","0",".","2","0">>

C4_SpecExampleLine ==
    (Printed /\ html = ExampleDoc) =>
        LET lines == splitLines(stdout[1].text) IN
            /\ Len(lines) = 3
            /\ lines[2] = dashes(SeparatorWidth)
            /\ lines[3] = SpecExampleLine

\* C4 as amended: the record line has 6 spaces before the first pipe (41
\* characters); the separator is 40 dashes; the record's columns are 15, 10
\* and 10 wide and its pipes stand where the header's stand.
CodeExampleLine ==
    <<"0","1",".","0","1",".","2","0","2","4"," "," "," "," "," "," ","|",
      " "," "," "," "," "," ","9","0",".","5","0"," ","|",
      " "," "," "," "," "," ","+","0",".","2","0">>

PipePositions(s) == {k \in 1..Len(s) : s[k] = "|"}

C4_ExampleOutput ==
    (Printed /\ html = ExampleDoc) =>
        LET lines == splitLines(stdout[1].text) IN
            /\ Len(lines) = 3
            /\ Len(lines[1]) = 40
            /\ lines[2] = dashes(40)
            /\ lines[3] = CodeExampleLine
            /\ PipePositions(lines[3]) = PipePositions(lines[1])
            /\ PipePositions(lines[3]) = {17, 30}

C4_Witness ==
    /\ Printed /\ html = ExampleDoc /\ pc = "done"
    /\ Len(rates) = 1
    /\ stdout[2].n = 1

\* C5: in the chart loop dates and rates always have equal length; a row
\* that fails either conversion adds to neither list; the loop goes on to
\* the next row, so exactly the converting rows seen so far have an entry.
C5_NoPartialAppend ==
    (program = "level2" /\ pc \in {"loop", "done"} /\ html.cls /= "none") =>
        /\ Len(dates) = Len(rates)
        /\ Len(origin) = Len(rates)
        /\ StrictlyIncreasing(origin)
        /\ Range(origin) = {i \in 2..(idx - 1) : Converts(html.rows[i])}
        /\ pc = "done" => idx > Len(html.rows)

\* a row whose rate converts and whose date does not was dropped, and the
\* row after it was appended
C5_Witness ==
    /\ program = "level2" /\ pc = "done"
    /\ Len(html.rows) = 3
    /\ html.rows[2] = <<DateBad, RateStar>>
    /\ origin = <<3>>
    /\ plotted = <<[dates |-> <<[year |-> 2024, month |-> 1, day |-> 1]>>,
                   rates |-> <<[num |-> 905, scale |-> 1]>>]>>

\* C6: format of an empty list is the "no data" message alone: one line,
\* neither the header nor the separator.
C6_EmptyIsNoData ==
    (Printed /\ rates = <<>>) =>
        /\ stdout[1].text = NoDataMessage
        /\ splitLines(stdout[1].text) = <<NoDataMessage>>
        /\ header \notin Range(splitLines(stdout[1].text))
        /\ separator \notin Range(splitLines(stdout[1].text))

\* a table with rows, none of them a 3-cell data row, was formatted
C6_Witness ==
    /\ Printed /\ rates = <<>>
    /\ Len(html.rows) >= 2

\* C7: with no table element, parse raises ValueError and returns no list;
\* the chart script prints its message, builds no data and plots nothing.
C7_NoTable ==
    (html.cls = "none" /\ pc \notin {"start", "fetched"}) =>
        /\ program = "level1" =>
              /\ exc = raised("ValueError", "parse")
              /\ pc \in {"except", "done"}
              /\ rates = <<>>
        /\ program = "level2" =>
              /\ pc = "done"
              /\ stdout = <<line("table_not_found", <<>>, 0)>>
              /\ dates = <<>> /\ rates = <<>> /\ plotted = <<>>
              /\ calls = <<"fetch", "parse">>

C7_Witness ==
    /\ program = "level1" /\ html = NoTableDoc
    /\ exc.type = "ValueError" /\ pc = "except"

\* C8: the steps run in the order fetch, parse, format, each at most once;
\* after a failed fetch parse is never invoked, after a failed parse nothing
\* is formatted and neither the table nor the count is printed.
C8_StepOrder ==
    program = "level1" =>
        /\ \E n \in 0..3 : calls = SubSeq(<<"fetch", "parse", "format">>, 1, n)
        /\ exc.at = "fetch" => calls = <<"fetch">>
        /\ exc.at = "parse" => calls = <<"fetch", "parse">>
        /\ exc /= NoExc =>
              \A k \in 1..Len(stdout) : stdout[k].kind \notin {"table", "count"}

C8_Witness ==
    /\ program = "level1" /\ pc = "done"
    /\ exc.at = "parse"
    /\ calls = <<"fetch", "parse">>

\* C9: in both programs a failure ends the run with a printed diagnostic,
\* never with an uncaught exception; level1 prints the network message for
\* request and HTTP failures, the parsing message for ValueError, the
\* generic message otherwise.
C9_FailuresEndWithDiagnostic ==
    /\ pc /= "crashed"
    /\ (pc = "done" /\ exc /= NoExc) =>
          /\ Len(stdout) = 2
          /\ stdout[1].kind =
                IF exc.type \in {"ConnectionError", "HTTPError"}
                THEN "fetch_error"
                ELSE IF exc.type = "ValueError" THEN "parse_error"
                ELSE "unexpected_error"
    /\ (program = "level2" /\ pc = "done" /\ html.cls = "none") =>
          stdout = <<line("table_not_found", <<>>, 0)>>

\* the part of C9 that is about level1 alone
Level1FailuresEndWithDiagnostic ==
    program = "level1" => C9_FailuresEndWithDiagnostic

\* C10: parse returns one record per row after the first with exactly 3
\* cells, in table order, and nothing else; the first row gives no record;
\* a table of zero or one rows gives the empty list; no error is raised.
C10_OneRecordPerDataRow ==
    (program = "level1" /\ findTableByClass(html)
        /\ pc \notin {"start", "fetched"}) =>
        /\ Parsed
        /\ Len(origin) = Len(rates)
        /\ Range(origin) = ThreeCellRows
        /\ StrictlyIncreasing(origin)
        /\ \A k \in 1..Len(rates) :
              RecordOfRow(rates[k], html.rows[origin[k]])
        /\ Len(html.rows) <= 1 => rates = <<>>

\* three 3-cell rows were parsed into two records
C10_Witness ==
    /\ Parsed /\ pc = "parsed"
    /\ Len(html.rows) = 3
    /\ \A i \in 1..3 : Len(html.rows[i]) = 3
    /\ origin = <<2, 3>>

====
